---------------------------- MODULE Spec2Model ----------------------------
(***************************************************************************)
(* Model of the LibreLinkUp client of src/python/main.py: the session      *)
(* state of LibreLinkUpClient, its login with region redirect, the         *)
(* minimum-version retry around the data calls, and the parsing of the     *)
(* connections and graph payloads.  The server is the environment: every   *)
(* request is answered by a response drawn from a finite set.              *)
(***************************************************************************)
EXTENDS Integers, Sequences, FiniteSets, TLC

(***************************************************************************)
(* Python / JSON values.  A value is a record [t, s]: its type tag and its *)
(* str() rendering.  dict.get of a missing key and JSON null are both      *)
(* None.                                                                   *)
(***************************************************************************)
PyNone == [t |-> "none", s |-> "None"]
PyStr(x) == [t |-> "str", s |-> x]
PyInt(x) == [t |-> "int", s |-> x]
PyTrue == [t |-> "bool", s |-> "True"]
PyFalse == [t |-> "bool", s |-> "False"]
PyDict(x) == [t |-> "dict", s |-> x]

\* Python truthiness of a value (bool(v)).
Truthy(v) ==
    CASE v.t = "none" -> FALSE
      [] v.t = "str" -> v.s # ""
      [] v.t = "int" -> v.s # "0"
      [] v.t = "bool" -> v.s = "True"
      [] v.t = "dict" -> v.s # "{}"
      [] OTHER -> TRUE

\* isinstance(v, str)
IsStr(v) == v.t = "str"

\* str(v) of a value; the result is a Python str.
Str(v) == PyStr(v.s)

\* a or b
PyOr(a, b) == IF Truthy(a) THEN a ELSE b

(***************************************************************************)
(* Payload shapes.  A payload is the JSON object of a response plus the    *)
(* "_http_status" key that _request attaches; t = "nonjson" stands for a   *)
(* body that resp.json() cannot parse, t = "list" for a JSON list.         *)
(***************************************************************************)
NoDict == [t |-> "none", token |-> PyNone]
TicketOf(tok) == [t |-> "dict", token |-> tok]
NotADict == [t |-> "str", token |-> PyNone]

NoUser == [t |-> "none", id |-> PyNone]
UserOf(id) == [t |-> "dict", id |-> id]

NoConn == [t |-> "none", s |-> "None", glucoseMeasurement |-> PyNone]
ConnOf(gm) == [t |-> "dict", s |-> "{..}", glucoseMeasurement |-> gm]
ConnStr(x) == [t |-> "str", s |-> x, glucoseMeasurement |-> PyNone]

\* One element of the connections list.
ItemOf(a, b) == [t |-> "dict", patientId |-> a, patient_id |-> b]
ItemStr == [t |-> "str", patientId |-> PyNone, patient_id |-> PyNone]

\* The value under "data": absent, an object, a list or a string.
NoData ==
    [t |-> "none", s |-> "None", redirect |-> PyNone, region |-> PyNone,
     minimumVersion |-> PyNone, authTicket |-> NoDict, token |-> PyNone,
     user |-> NoUser, connection |-> NoConn, items |-> <<>>]
EmptyDict == [NoData EXCEPT !.t = "dict", !.s = "{}"]
DataList(items) == [NoData EXCEPT !.t = "list", !.s = "[..]", !.items = items]
DataStr(x) == [NoData EXCEPT !.t = "str", !.s = x]

EmptyPayload(h) ==
    [t |-> "dict", _http_status |-> h, status |-> PyNone, data |-> NoData,
     region |-> PyNone, ticket |-> NoDict, token |-> PyNone]
NonJson(h) == [EmptyPayload(h) EXCEPT !.t = "nonjson"]
\* A JSON body that is no object (a list): payload["_http_status"] = ... fails.
NonObject(h) == [EmptyPayload(h) EXCEPT !.t = "list"]
NoPayload == [EmptyPayload(0) EXCEPT !.t = "none"]

(***************************************************************************)
(* Parsing helpers (static methods of LibreLinkUpClient).                  *)
(***************************************************************************)
_data_dict(payload) ==
    IF payload.data.t = "dict" THEN payload.data ELSE EmptyDict

_is_redirect(payload) ==
    payload.data.t = "dict" /\ payload.data.redirect = PyTrue

_region_NoTypeCheck(payload) ==
    LET d == _data_dict(payload)
        r == PyOr(d.region, payload.region)
    IN  IF Truthy(r) THEN Str(r) ELSE PyNone

_region(payload) ==
    LET d == _data_dict(payload)
        r == PyOr(d.region, payload.region)
    IN  IF IsStr(r) THEN Str(r) ELSE PyNone

_minimum_version_NoTypeCheck(payload) ==
    IF payload._http_status = 403 /\ payload.status = PyInt("920")
    THEN LET mv == _data_dict(payload).minimumVersion
         IN  IF Truthy(mv) THEN Str(mv) ELSE PyNone
    ELSE PyNone

_minimum_version(payload) ==
    IF payload._http_status = 403 /\ payload.status = PyInt("920")
    THEN LET mv == _data_dict(payload).minimumVersion
         IN  IF IsStr(mv) THEN Str(mv) ELSE PyNone
    ELSE PyNone

_extract_token_TicketFirst(payload) ==
    LET d == payload.data
        t == payload.ticket
    IN  IF t.t = "dict" /\ Truthy(t.token) THEN Str(t.token)
        ELSE IF d.t = "dict" /\ d.authTicket.t = "dict" /\ Truthy(d.authTicket.token)
        THEN Str(d.authTicket.token)
        ELSE IF d.t = "dict" /\ Truthy(d.token) THEN Str(d.token)
        ELSE IF Truthy(payload.token) THEN Str(payload.token)
        ELSE PyNone

_extract_token(payload) ==
    LET d == payload.data
        t == payload.ticket
    IN  IF d.t = "dict" /\ d.authTicket.t = "dict" /\ Truthy(d.authTicket.token)
        THEN Str(d.authTicket.token)
        ELSE IF d.t = "dict" /\ Truthy(d.token) THEN Str(d.token)
        ELSE IF t.t = "dict" /\ Truthy(t.token) THEN Str(t.token)
        ELSE IF Truthy(payload.token) THEN Str(payload.token)
        ELSE PyNone

_user_id_from_login(payload) ==
    LET user == _data_dict(payload).user
    IN  IF user.t = "dict" /\ Truthy(user.id) THEN Str(user.id) ELSE PyNone

\* region.lower() on the region codes of the model's alphabet.
Lower(x) ==
    CASE x = "EU" -> "eu"
      [] x = "US" -> "us"
      [] OTHER -> x

RegionBaseUrl_NoLower(region) == "https://api-" \o region \o ".libreview.io"

\* f"https://api-{region.lower()}.libreview.io"
RegionBaseUrl(region) == "https://api-" \o Lower(region) \o ".libreview.io"

\* hashlib.sha256(user_id.encode("utf-8")).hexdigest(), kept symbolic.
Sha256(x) == "sha256(" \o x \o ")"


(***************************************************************************)
(* Bounds of the model and the responses the server may give.              *)
(***************************************************************************)
\* Longest connections list a response carries.
MaxConns == 2

DEFAULT_BASE == "https://api.libreview.io"
InitialVersion == "4.16.0"
LoginPath == "/llu/auth/login"
ConnectionsPath == "/llu/connections"
GraphPath_NoFormat(patient_id) == "/llu/connections/{patient_id}/graph"

\* f"/llu/connections/{patient_id}/graph"
GraphPath(patient_id) == "/llu/connections/" \o patient_id \o "/graph"

\* <<HTTP status, application status, data.minimumVersion>> of an ordinary answer.
PlainStatus == {<<200, PyInt("0"), PyNone>>, <<304, PyInt("0"), PyNone>>,
                <<500, PyNone, PyNone>>}
\* Answers that carry, or nearly carry, the minimum-version signal.
VersionStatus ==
    {<<403, PyInt("920"), PyStr("4.17.0")>>, <<403, PyInt("920"), PyStr("4.18.0")>>,
     <<403, PyInt("920"), PyNone>>, <<403, PyInt("920"), PyStr("")>>,
     <<403, PyInt("920"), PyInt("4")>>, <<403, PyInt("0"), PyStr("4.17.0")>>,
     <<200, PyInt("920"), PyStr("4.17.0")>>}

\* <<data.region, top-level region>> of a redirect answer.
RegionCases ==
    {<<PyNone, PyNone>>, <<PyStr("eu"), PyNone>>, <<PyStr("EU"), PyNone>>,
     <<PyStr("us"), PyNone>>, <<PyNone, PyStr("eu")>>, <<PyStr(""), PyNone>>,
     <<PyInt("7"), PyNone>>, <<PyInt("7"), PyStr("eu")>>,
     <<PyStr("eu"), PyStr("us")>>}

LoginPayload(sc, redirect, reg, auth, user) ==
    [EmptyPayload(sc[1]) EXCEPT
        !.status = sc[2], !.region = reg[2],
        !.data = [EmptyDict EXCEPT !.s = "{..}", !.redirect = redirect,
                                   !.region = reg[1], !.minimumVersion = sc[3],
                                   !.authTicket = auth, !.user = user]]

LoginAuth == {NoDict, TicketOf(PyStr("T1"))}

LoginResponses ==
    {NonJson(502), NonObject(200)}
    \cup {LoginPayload(sc, PyNone, <<PyNone, PyNone>>, auth, user) :
            sc \in PlainStatus \cup {<<403, PyInt("920"), PyStr("4.17.0")>>},
            auth \in LoginAuth,
            user \in {NoUser, UserOf(PyStr("U1")), UserOf(PyStr("U2"))}}
    \cup {LoginPayload(sc, PyTrue, reg, auth, NoUser) :
            sc \in {<<200, PyInt("0"), PyNone>>, <<403, PyInt("920"), PyStr("4.17.0")>>},
            reg \in RegionCases, auth \in LoginAuth}

\* ticket of a data response: absent, or a rotated token.
Rotations == {NoDict, TicketOf(PyStr("T2"))}

DataPayload(sc, rot, data) ==
    [EmptyPayload(sc[1]) EXCEPT !.status = sc[2], !.ticket = rot, !.data = data]

\* A 403/920-like answer: data is an object holding minimumVersion.
VersionResponses ==
    {DataPayload(sc, rot, [EmptyDict EXCEPT !.s = "{..}", !.minimumVersion = sc[3]]) :
        sc \in VersionStatus, rot \in Rotations}

\* First elements of a connections list.
FirstItems ==
    {ItemOf(PyStr("P1"), PyNone), ItemOf(PyNone, PyStr("P2")),
     ItemOf(PyStr("P1"), PyStr("P2")), ItemOf(PyInt("7"), PyNone),
     ItemOf(PyNone, PyNone), ItemStr}
\* The elements after the first.
OtherItem == ItemOf(PyStr("P3"), PyNone)

ConnLists ==
    {<<>>} \cup {<<first>> \o [i \in 1..n |-> OtherItem] :
                    first \in FirstItems, n \in 0..(MaxConns - 1)}

ConnShapes ==
    {DataList(l) : l \in ConnLists}
    \cup {NoData, [EmptyDict EXCEPT !.s = "{..}", !.token = PyStr("T2")], DataStr("oops")}

ConnectionsResponses ==
    {NonJson(502), NonObject(200)} \cup VersionResponses
    \cup {DataPayload(sc, rot, DataList(<<ItemOf(PyStr("P1"), PyNone)>>)) :
            sc \in PlainStatus, rot \in Rotations}
    \cup {DataPayload(<<200, PyInt("0"), PyNone>>, rot, d) :
            d \in ConnShapes, rot \in Rotations}

\* Values under data.connection.glucoseMeasurement.
Measurements ==
    {PyNone, PyDict("{}"), PyDict("{'Value': 101}"), PyDict("{'Value': 102}"),
     PyStr("garbage")}

GraphData(conn) == [EmptyDict EXCEPT !.s = "{..}", !.connection = conn]

GraphShapes ==
    {GraphData(ConnOf(gm)) : gm \in Measurements}
    \cup {GraphData(NoConn), GraphData(ConnStr("oops")), GraphData(ConnStr("")),
          NoData, EmptyDict, DataList(<<>>), DataList(<<OtherItem>>), DataStr("oops")}

GraphResponses ==
    {NonJson(502), NonObject(200)} \cup VersionResponses
    \cup {DataPayload(sc, rot, GraphData(ConnOf(PyDict("{'Value': 101}")))) :
            sc \in PlainStatus, rot \in Rotations}
    \cup {DataPayload(<<200, PyInt("0"), PyNone>>, rot, d) :
            d \in GraphShapes, rot \in Rotations}

\* Patient ids a caller may hand to graph().
CallerPids == {"P1", "P9"}

(***************************************************************************)
(* State.                                                                  *)
(***************************************************************************)
VARIABLES
    base_url,          \* self.base_url
    version,           \* self.version
    _token,            \* self._token
    _account_id_hash,  \* self._account_id_hash
    pc,                \* where the running public call stands
    op,                \* the public method running (or last run)
    stage,             \* the data call in progress: "connections" or "graph"
    pid,               \* patient_id of graph() / pid of last_reading()
    payload,           \* the last response received (local `payload`)
    sent,              \* the requests sent by the running public call
    result,            \* how the last public call ended
    at_call            \* the session fields when the running public call began

vars == <<base_url, version, _token, _account_id_hash, pc, op, stage, pid,
          payload, sent, result, at_call>>
session == <<base_url, version, _token, _account_id_hash>>
\* The session fields as one record.
SessionFields ==
    [base_url |-> base_url, version |-> version, token |-> _token,
     account_id_hash |-> _account_id_hash]

Pending == [kind |-> "pending", err |-> "", line |-> 0, ret |-> PyNone]
Returned(v) == [kind |-> "return", err |-> "", line |-> 0, ret |-> v]
Raised(e, l) == [kind |-> "raise", err |-> e, line |-> l, ret |-> PyNone]

Init ==
    /\ base_url = DEFAULT_BASE
    /\ version = InitialVersion
    /\ _token = PyNone
    /\ _account_id_hash = PyNone
    /\ pc = "idle"
    /\ op = "none"
    /\ stage = "none"
    /\ pid = PyNone
    /\ payload = NoPayload
    /\ sent = <<>>
    /\ result = Pending
    /\ at_call = [base_url |-> DEFAULT_BASE, version |-> InitialVersion,
                  token |-> PyNone, account_id_hash |-> PyNone]

(***************************************************************************)
(* HTTP helpers.                                                           *)
(***************************************************************************)
_headers_AtCallToken ==
    [product |-> "llu.android",
     version |-> version,
     authorization |-> IF Truthy(at_call.token)
                       THEN PyStr("Bearer " \o at_call.token.s) ELSE PyNone,
     account_id |-> IF Truthy(_account_id_hash) THEN _account_id_hash ELSE PyNone]

_headers ==
    [product |-> "llu.android",
     version |-> version,
     authorization |-> IF Truthy(_token) THEN PyStr("Bearer " \o _token.s) ELSE PyNone,
     account_id |-> IF Truthy(_account_id_hash) THEN _account_id_hash ELSE PyNone]

_url(path) == base_url \o path

\* The request _request(method, path, json_body) puts on the wire.
Request(method, path, json_body) ==
    [method |-> method, url |-> _url(path), base |-> base_url, path |-> path,
     headers |-> _headers, json |-> json_body]

LoginBody == "{email, password}"

(***************************************************************************)
(* Payload parsing of first_patient_id() and last_reading(): the outcome   *)
(* each computes from a payload that connections() / graph() returned.     *)
(***************************************************************************)
first_patient_id_EmptyRaises(p) ==
    LET conns == p.data
    IN  IF conns.t # "list" \/ Len(conns.items) = 0 THEN Raised("DataShapeError", 231)
        ELSE LET c == conns.items[1]
             IN  IF c.t # "dict" THEN Raised("AttributeError", 233)
                 ELSE LET x == PyOr(c.patientId, c.patient_id)
                      IN  Returned(IF Truthy(x) THEN Str(x) ELSE PyNone)

\* Lines 224-234, applied to the payload of connections().
first_patient_id(p) ==
    LET conns == p.data
    IN  IF conns.t = "list" /\ Len(conns.items) = 0 THEN Returned(PyNone)
        ELSE IF conns.t # "list" \/ Len(conns.items) = 0
        THEN Raised("DataShapeError", 231)
        ELSE LET c == conns.items[1]
             IN  IF c.t # "dict" THEN Raised("AttributeError", 233)
                 ELSE LET x == PyOr(c.patientId, c.patient_id)
                      IN  Returned(IF Truthy(x) THEN Str(x) ELSE PyNone)

\* x or {} for the value under a key that should hold an object.
OrEmpty(x, empty) ==
    IF x.t = "none" \/ (x.t = "list" /\ Len(x.items) = 0) \/ (x.t = "str" /\ x.s = "")
    THEN empty ELSE x

EmptyConn == [t |-> "dict", s |-> "{}", glucoseMeasurement |-> PyNone]
ConnOrEmpty(x) == IF x.t = "none" \/ (x.t = "str" /\ x.s = "") THEN EmptyConn ELSE x

\* Lines 263-279, applied to the payload of graph().
last_reading(g) ==
    LET data == OrEmpty(g.data, EmptyDict)
    IN  IF data.t # "dict" THEN Raised("DataShapeError", 265)
        ELSE LET conn == ConnOrEmpty(data.connection)
             IN  IF conn.t # "dict" THEN Raised("DataShapeError", 269)
                 ELSE LET latest == conn.glucoseMeasurement
                      IN  IF ~Truthy(latest) THEN Raised("DataShapeError", 274)
                          ELSE Returned(latest)

(***************************************************************************)
(* Public calls.  A call starts when none is running (the client is        *)
(* synchronous); connections() and graph() log in first when no token is   *)
(* stored.                                                                 *)
(***************************************************************************)
Begin(o, st, p) ==
    /\ pc = "idle"
    /\ op' = o
    /\ stage' = st
    /\ pid' = p
    /\ payload' = NoPayload
    /\ sent' = <<>>
    /\ result' = Pending
    /\ at_call' = SessionFields
    /\ UNCHANGED session

CallLogin == Begin("login", "none", PyNone) /\ pc' = "login"

EntryPoint_AlwaysLogin == "login"
EntryPoint_NeverLogin == "call"

\* Lines 213 and 237: if not self._token: self.login()
EntryPoint == IF ~Truthy(_token) THEN "login" ELSE "call"

CallConnections == Begin("connections", "connections", PyNone) /\ pc' = EntryPoint

CallFirstPatientId ==
    Begin("first_patient_id", "connections", PyNone) /\ pc' = EntryPoint

CallGraph ==
    \E p \in CallerPids : Begin("graph", "graph", PyStr(p)) /\ pc' = EntryPoint

CallLastReading == Begin("last_reading", "connections", PyNone) /\ pc' = EntryPoint

\* The running public call ends with an exception.
Raise(e, l) ==
    /\ pc' = "idle"
    /\ result' = Raised(e, l)

\* The running public call returns v.
Return(v) ==
    /\ pc' = "idle"
    /\ result' = Returned(v)

\* Lines 90-96: _request raises on a body that is no JSON object.
RequestRaise(resp) ==
    IF resp.t = "nonjson" THEN Raise("TransportError", 93) ELSE Raise("TypeError", 96)

Session(tok) ==
    [t |-> "Session", base_url |-> base_url, token |-> tok,
     account_id_hash |-> _account_id_hash', version |-> version]

(***************************************************************************)
(* login(): lines 159-193.                                                 *)
(***************************************************************************)
LoginFailed_ServerOnly(http_status) == http_status >= 500

\* Line 173: http_status >= 400
LoginFailed(http_status) == http_status >= 400

\* Lines 172-193, on the payload login() ends with.
LoginFinish(p) ==
    /\ UNCHANGED <<version, op, stage, pid>>
    /\ IF LoginFailed(p._http_status)
       THEN Raise("AuthError", 174) /\ UNCHANGED <<_token, _account_id_hash>>
       ELSE LET token == _extract_token(p)
                user_id == _user_id_from_login(p)
            IN  IF ~Truthy(token)
                THEN Raise("AuthError", 180) /\ UNCHANGED <<_token, _account_id_hash>>
                ELSE /\ _token' = token
                     /\ _account_id_hash' =
                            IF Truthy(user_id) THEN PyStr(Sha256(user_id.s))
                            ELSE _account_id_hash
                     /\ IF op = "login"
                        THEN Return(Session(token))
                        ELSE pc' = "call" /\ UNCHANGED result

\* Lines 160-170: the first login request and the redirect decision, the
\* server answering from the set R.
LoginRequestFrom(R) ==
    /\ pc = "login"
    /\ sent' = Append(sent, Request("POST", LoginPath, LoginBody))
    /\ UNCHANGED at_call
    /\ \E resp \in R :
        /\ payload' = resp
        /\ IF resp.t # "dict"
           THEN RequestRaise(resp)
                /\ UNCHANGED <<session, op, stage, pid>>
           ELSE IF _is_redirect(resp)
           THEN LET region == _region(resp)
                IN  IF ~Truthy(region)
                    THEN Raise("AuthError", 168)
                         /\ UNCHANGED <<session, op, stage, pid>>
                    ELSE /\ base_url' = RegionBaseUrl(region.s)
                         /\ pc' = "login_retry"
                         /\ UNCHANGED <<version, _token, _account_id_hash, op,
                                        stage, pid, result>>
           ELSE LoginFinish(resp) /\ UNCHANGED base_url

LoginRequest == LoginRequestFrom(LoginResponses)

LoginRetry_Follow ==
    /\ pc = "login_retry"
    /\ sent' = Append(sent, Request("POST", LoginPath, LoginBody))
    /\ UNCHANGED at_call
    /\ \E resp \in LoginResponses :
        /\ payload' = resp
        /\ IF resp.t # "dict"
           THEN RequestRaise(resp)
                /\ UNCHANGED <<session, op, stage, pid>>
           ELSE IF _is_redirect(resp) /\ Truthy(_region(resp))
           THEN /\ base_url' = RegionBaseUrl(_region(resp).s)
                /\ pc' = "login_retry"
                /\ UNCHANGED <<version, _token, _account_id_hash, op,
                               stage, pid, result>>
           ELSE LoginFinish(resp) /\ UNCHANGED base_url

\* Line 170: the login request against the regional base URL.
LoginRetry ==
    /\ pc = "login_retry"
    /\ sent' = Append(sent, Request("POST", LoginPath, LoginBody))
    /\ UNCHANGED at_call
    /\ \E resp \in LoginResponses :
        /\ payload' = resp
        /\ IF resp.t # "dict"
           THEN RequestRaise(resp)
                /\ UNCHANGED <<session, op, stage, pid>>
           ELSE LoginFinish(resp) /\ UNCHANGED base_url

(***************************************************************************)
(* _call_with_min_version_retry() and its callers connections(), graph(),  *)
(* first_patient_id() and last_reading(): lines 195-279.                   *)
(***************************************************************************)
DataPath == IF stage = "connections" THEN ConnectionsPath ELSE GraphPath(pid.s)
DataResponses == IF stage = "connections" THEN ConnectionsResponses ELSE GraphResponses

CallFailed_ServerOnly(status) == status >= 500

\* Lines 218 and 242: status >= 400
CallFailed(status) == status >= 400

RotatedToken_Keep(new_token, old) == old

RotatedToken_Always(new_token, old) == new_token

\* Lines 204-206: keep the newest token if the response provides one.
RotatedToken(new_token, old) == IF Truthy(new_token) THEN new_token ELSE old

\* Lines 203-208 and the caller's code after the call returns payload p.
DataFinish(p) ==
    LET new_token == _extract_token(p)
    IN  /\ UNCHANGED <<base_url, _account_id_hash, op>>
        /\ _token' = RotatedToken(new_token, _token)
        /\ IF CallFailed(p._http_status)
           THEN /\ Raise("ApiError", IF stage = "connections" THEN 219 ELSE 243)
                /\ UNCHANGED <<stage, pid>>
           ELSE IF stage = "graph"
           THEN /\ pc' = "idle"
                /\ result' = IF op = "graph" THEN Returned(p) ELSE last_reading(p)
                /\ UNCHANGED <<stage, pid>>
           ELSE IF op = "connections"
           THEN Return(p) /\ UNCHANGED <<stage, pid>>
           ELSE LET r == first_patient_id(p)
                IN  IF op = "first_patient_id" \/ r.kind = "raise"
                    THEN /\ pc' = "idle"
                         /\ result' = r
                         /\ UNCHANGED <<stage, pid>>
                    ELSE /\ pid' = r.ret
                         /\ IF ~Truthy(r.ret)
                            THEN Raise("NoConnectionError", 255) /\ UNCHANGED stage
                            ELSE /\ stage' = "graph"
                                 /\ pc' = IF ~Truthy(_token') THEN "login" ELSE "call"
                                 /\ UNCHANGED result

\* Lines 196-201: the first data request and the version decision, the
\* server answering from the set R.
CallRequestFrom(R) ==
    /\ pc = "call"
    /\ sent' = Append(sent, Request("GET", DataPath, "None"))
    /\ UNCHANGED at_call
    /\ \E resp \in R :
        /\ payload' = resp
        /\ IF resp.t # "dict"
           THEN RequestRaise(resp)
                /\ UNCHANGED <<session, op, stage, pid>>
           ELSE LET mv == _minimum_version(resp)
                IN  IF Truthy(mv)
                    THEN /\ version' = mv.s
                         /\ pc' = "call_retry"
                         /\ UNCHANGED <<base_url, _token, _account_id_hash, op,
                                        stage, pid, result>>
                    ELSE DataFinish(resp) /\ UNCHANGED version

CallRequest == CallRequestFrom(DataResponses)

CallRetry_Loop ==
    /\ pc = "call_retry"
    /\ sent' = Append(sent, Request("GET", DataPath, "None"))
    /\ UNCHANGED at_call
    /\ \E resp \in DataResponses :
        /\ payload' = resp
        /\ IF resp.t # "dict"
           THEN RequestRaise(resp)
                /\ UNCHANGED <<session, op, stage, pid>>
           ELSE LET mv == _minimum_version(resp)
                IN  IF Truthy(mv)
                    THEN /\ version' = mv.s
                         /\ pc' = "call_retry"
                         /\ UNCHANGED <<base_url, _token, _account_id_hash, op,
                                        stage, pid, result>>
                    ELSE DataFinish(resp) /\ UNCHANGED version

\* Line 201: the same request again, with the new version header.
CallRetry ==
    /\ pc = "call_retry"
    /\ sent' = Append(sent, Request("GET", DataPath, "None"))
    /\ UNCHANGED at_call
    /\ \E resp \in DataResponses :
        /\ payload' = resp
        /\ IF resp.t # "dict"
           THEN RequestRaise(resp)
                /\ UNCHANGED <<session, op, stage, pid>>
           ELSE DataFinish(resp) /\ UNCHANGED version

Next ==
    \/ CallLogin
    \/ CallConnections
    \/ CallFirstPatientId
    \/ CallGraph
    \/ CallLastReading
    \/ LoginRequest
    \/ LoginRetry
    \/ CallRequest
    \/ CallRetry

Spec == Init /\ [][Next]_vars

\* Every request is answered or ends at the timeout, and the code after a
\* response makes no blocking call: a call that has started takes its next
\* step.
Fairness ==
    /\ WF_vars(LoginRequest)
    /\ WF_vars(LoginRetry)
    /\ WF_vars(CallRequest)
    /\ WF_vars(CallRetry)

SpecFair == Init /\ [][Next]_vars /\ Fairness

(***************************************************************************)
(* _extract_token as a function of the payload alone: every combination    *)
(* of the four token locations.                                            *)
(***************************************************************************)
TokenPayloads ==
    {[EmptyPayload(200) EXCEPT
        !.data = [EmptyDict EXCEPT !.s = "{..}", !.authTicket = a, !.token = b],
        !.ticket = c, !.token = d] :
        a \in {NoDict, NotADict, TicketOf(PyNone), TicketOf(PyStr("")),
               TicketOf(PyStr("A"))},
        b \in {PyNone, PyStr(""), PyStr("B"), PyInt("7"), PyInt("0")},
        c \in {NoDict, NotADict, TicketOf(PyStr("")), TicketOf(PyStr("C"))},
        d \in {PyNone, PyStr(""), PyStr("D")}}
    \cup {[EmptyPayload(200) EXCEPT !.data = x, !.ticket = c, !.token = d] :
        x \in {NoData, DataList(<<>>), DataStr("oops")},
        c \in {NoDict, NotADict, TicketOf(PyStr("")), TicketOf(PyStr("C"))},
        d \in {PyNone, PyStr(""), PyStr("D")}}

\* login() and the data calls answered from TokenPayloads.
ExtractAtLogin == LoginRequestFrom(TokenPayloads)
ExtractAtCall == CallRequestFrom(TokenPayloads)

NextExtract ==
    \/ CallLogin
    \/ CallConnections
    \/ CallGraph
    \/ ExtractAtLogin
    \/ ExtractAtCall

SpecExtract == Init /\ [][NextExtract]_vars

(***************************************************************************)
(* Properties.  The predicates below describe responses and request logs   *)
(* in the terms of the specification text; they do not use the parsing     *)
(* helpers of the client.                                                  *)
(***************************************************************************)
LastSent == sent[Len(sent)]
LastIsLogin == sent # <<>> /\ LastSent.path = "/llu/auth/login"
LastIsData == sent # <<>> /\ LastSent.path # "/llu/auth/login"
PathCount(s, path) == Cardinality({i \in DOMAIN s : s[i].path = path})

\* The authorization header that goes with a stored token.
BearerOf(tok) == IF tok = PyNone THEN PyNone ELSE PyStr("Bearer " \o tok.s)

\* A response with data.redirect = true.
SignalsRedirect(p) == p.t = "dict" /\ p.data.t = "dict" /\ p.data.redirect = PyTrue
\* The region code of a response: data.region, else the top-level region.
RegionCodeOf(p) == IF Truthy(p.data.region) THEN p.data.region ELSE p.region
HasRegionCode(p) == RegionCodeOf(p).t = "str" /\ RegionCodeOf(p).s # ""

Unchanged(x) == x

C1_Login(Case(_)) ==
    /\ (pc = "login" /\ SignalsRedirect(payload') /\ HasRegionCode(payload'))
        => /\ base_url' = "https://api-" \o Case(RegionCodeOf(payload').s)
                              \o ".libreview.io"
           /\ pc' = "login_retry"
    /\ pc = "login_retry"
        => /\ Len(sent') = Len(sent) + 1
           /\ sent'[Len(sent')].method = "POST"
           /\ sent'[Len(sent')].url = base_url \o "/llu/auth/login"
           /\ base_url' = base_url
           /\ pc' \notin {"login", "login_retry"}
    /\ PathCount(sent', "/llu/auth/login") <= 2

\* C1 (as amended): when the first response of a login() call has
\* data.redirect = true and a region code, the base URL becomes
\* https://api-{region in lower case}.libreview.io, exactly one more login
\* request is sent, to the new base URL, and no third login request follows
\* even if the second response signals a redirect too: a public call sends
\* at most two login requests.
C1_RedirectOnce == [][C1_Login(Lower)]_vars

\* C1 as stated: the base URL is https://api-{region}.libreview.io with the
\* region code as the response gave it.
C1_AsStated == [][C1_Login(Unchanged)]_vars

C1_Witness ==
    /\ op = "login" /\ pc = "idle" /\ result.kind = "return"
    /\ Len(sent) = 2
    /\ sent[1].base = "https://api.libreview.io"
    /\ sent[2].url = "https://api-eu.libreview.io/llu/auth/login"
    /\ payload.data.redirect = PyTrue

\* A 403 response with application status 920 and a minimumVersion string.
IsVersionSignal(p) ==
    /\ p.t = "dict" /\ p._http_status = 403 /\ p.status = PyInt("920")
    /\ p.data.t = "dict"
    /\ p.data.minimumVersion.t = "str" /\ p.data.minimumVersion.s # ""

\* C2: when the first response of a connections or graph request is 403 with
\* status 920 and a minimumVersion, the stored version becomes that minimum,
\* the same request is sent once more with the new version header, and no
\* third one follows even if the answer is 403/920 again: at most two
\* requests per data path.
C2_VersionRetryOnce ==
    [][ /\ (pc = "call" /\ IsVersionSignal(payload'))
            => /\ version' = payload'.data.minimumVersion.s
               /\ pc' = "call_retry"
               /\ stage' = stage /\ pid' = pid
        /\ pc = "call_retry"
            => /\ Len(sent') = Len(sent) + 1
               /\ sent'[Len(sent')].method = LastSent.method
               /\ sent'[Len(sent')].url = LastSent.url
               /\ sent'[Len(sent')].json = LastSent.json
               /\ sent'[Len(sent')].headers
                      = [LastSent.headers EXCEPT !.version = version]
               /\ version' = version
               /\ pc' # "call_retry"
        /\ \A i \in DOMAIN sent' :
              sent'[i].path # "/llu/auth/login"
                  => PathCount(sent', sent'[i].path) <= 2
      ]_vars

C2_Witness ==
    /\ op = "connections" /\ pc = "idle"
    /\ Len(sent) = 2
    /\ sent[1].path = "/llu/connections" /\ sent[2].path = "/llu/connections"
    /\ sent[1].headers.version = "4.16.0" /\ sent[2].headers.version = "4.17.0"
    /\ IsVersionSignal(payload) /\ payload.data.minimumVersion = PyStr("4.18.0")
    /\ version = "4.17.0"

\* C3: the version handshake applies to the login request too: a login
\* response that is 403 with status 920 and a minimumVersion updates the
\* stored version and the login request is sent once more.
C3_LoginVersionRetry ==
    [][(pc \in {"login", "login_retry"} /\ IsVersionSignal(payload'))
          => /\ version' = payload'.data.minimumVersion.s
             /\ pc' \in {"login", "login_retry"}]_vars

\* The values at the four token locations, in the documented order; a
\* location that cannot be read (its parent is no object) holds nothing.
TokenLocations(p) ==
    << IF p.data.t = "dict" /\ p.data.authTicket.t = "dict"
       THEN p.data.authTicket.token ELSE PyNone,
       IF p.data.t = "dict" THEN p.data.token ELSE PyNone,
       IF p.ticket.t = "dict" THEN p.ticket.token ELSE PyNone,
       p.token >>
NonEmptyAt(p) == {i \in 1..4 : Truthy(TokenLocations(p)[i])}
ExpectedToken(p) ==
    IF NonEmptyAt(p) = {} THEN PyNone
    ELSE LET i == CHOOSE i \in NonEmptyAt(p) : \A j \in NonEmptyAt(p) : i <= j
         IN  PyStr(TokenLocations(p)[i].s)

\* C4: token extraction yields the value of the first non-empty location in
\* the order data.authTicket.token, data.token, ticket.token, token, and
\* nothing exactly when no location is non-empty; login, connections and
\* graph all use it: login stores that token or fails for want of one, a
\* data call stores it or keeps the token it was sent with.
C4_TokenPriority ==
    /\ (payload.t = "dict" /\ pc \in {"idle", "call"})
        => /\ _extract_token(payload) = ExpectedToken(payload)
           /\ (_extract_token(payload) = PyNone) <=> (NonEmptyAt(payload) = {})
    /\ (payload.t = "dict" /\ pc = "call" /\ LastIsLogin)
        => _token = ExpectedToken(payload) /\ _token # PyNone
    /\ (payload.t = "dict" /\ pc = "idle" /\ LastIsLogin)
        => IF NonEmptyAt(payload) = {}
           THEN /\ result = Raised("AuthError", 180)
                /\ BearerOf(_token) = LastSent.headers.authorization
           ELSE /\ result.kind = "return"
                /\ _token = ExpectedToken(payload)
                /\ result.ret.token = ExpectedToken(payload)
    /\ (payload.t = "dict" /\ pc = "idle" /\ LastIsData)
        => IF NonEmptyAt(payload) = {}
           THEN BearerOf(_token) = LastSent.headers.authorization
           ELSE _token = ExpectedToken(payload)

C4_Witness ==
    /\ op = "connections" /\ pc = "idle" /\ LastIsData
    /\ payload.data.authTicket = TicketOf(PyStr(""))
    /\ payload.data.token = PyInt("7")
    /\ payload.ticket = TicketOf(PyStr("C"))
    /\ payload.token = PyStr("D")
    /\ LastSent.headers.authorization = PyStr("Bearer A")
    /\ _token = PyStr("7")

Not2xx(status) == status < 200 \/ status > 299
AtLeast400(status) == status >= 400

\* login() has succeeded: it returned, or connections()/graph() went on.
LoginSucceeded ==
    LastIsLogin /\ (pc = "call" \/ (pc = "idle" /\ result.kind = "return"))

C5_Login(Bad(_)) ==
    /\ (payload.t = "dict" /\ pc = "idle" /\ LastIsLogin
          /\ (Bad(payload._http_status) \/ NonEmptyAt(payload) = {}))
        => /\ result.kind = "raise" /\ result.err = "AuthError"
           /\ BearerOf(_token) = LastSent.headers.authorization
    /\ LoginSucceeded
        => /\ payload.t = "dict"
           /\ ~Bad(payload._http_status)
           /\ NonEmptyAt(payload) # {}
           /\ _token = ExpectedToken(payload)
           /\ op = "login" => result.ret.token = _token

\* C5 (as amended): login() fails with an AuthError whenever its final
\* response has an HTTP status of 400 or more or carries no token in any of
\* the four locations, and then the stored token is the one the request was
\* sent with; it succeeds, storing the token, only when the final response
\* has a status below 400 and carries a token.
C5_LoginFailure == C5_Login(AtLeast400)

\* C5 as stated: every status outside 200..299 fails the login.
C5_AsStated == C5_Login(Not2xx)

C5_Witness ==
    /\ op = "login" /\ pc = "idle" /\ LastIsLogin
    /\ payload._http_status = 403 /\ NonEmptyAt(payload) # {}
    /\ result = Raised("AuthError", 174)
    /\ _token = PyNone

C6_Call(Bad(_)) ==
    /\ (payload.t = "dict" /\ pc = "idle" /\ LastIsData /\ Bad(payload._http_status))
        => result.kind = "raise" /\ result.err = "ApiError"
    /\ (op \in {"connections", "graph"} /\ pc = "idle" /\ result.kind = "return")
        => /\ LastIsData /\ payload.t = "dict"
           /\ ~Bad(payload._http_status)
           /\ result.ret = payload
    /\ (op \in {"connections", "graph"} /\ pc = "idle" /\ LastIsData
          /\ payload.t = "dict" /\ ~AtLeast400(payload._http_status))
        => result = Returned(payload)

\* C6 (as amended): connections and graph fail with an ApiError whenever the
\* last response to the data request (after the one version retry, if any)
\* has an HTTP status of 400 or more, and return that payload exactly when
\* its status is below 400.
C6_ApiFailure == C6_Call(AtLeast400)

\* C6 as stated: every status outside 200..299 fails the call.
C6_AsStated == C6_Call(Not2xx)

C6_Witness ==
    /\ op = "graph" /\ pc = "idle"
    /\ Len(sent) = 2
    /\ sent[1].path = sent[2].path /\ sent[1].path # "/llu/auth/login"
    /\ sent[2].headers.version = "4.17.0"
    /\ payload._http_status = 500
    /\ result = Raised("ApiError", 243)

\* The identifier a connections element carries: patientId, else patient_id.
ItemIdOf(item) == IF Truthy(item.patientId) THEN item.patientId ELSE item.patient_id
HasItemId(item) == item.t = "dict" /\ Truthy(ItemIdOf(item))

\* connections() has returned payload to first_patient_id().
ConnectionsReturned ==
    /\ pc = "idle" /\ stage = "connections" /\ LastIsData
    /\ payload.t = "dict" /\ payload._http_status < 400

\* C7: first_patient_id() returns no value, without raising, when the
\* connections data is an empty list, and the identifier of the first
\* element when the list is not empty.
C7_FirstPatientId ==
    (op = "first_patient_id" /\ ConnectionsReturned /\ payload.data.t = "list")
        => IF Len(payload.data.items) = 0
           THEN result = Returned(PyNone)
           ELSE HasItemId(payload.data.items[1])
                   => result = Returned(PyStr(ItemIdOf(payload.data.items[1]).s))

C7_Witness ==
    /\ op = "first_patient_id" /\ ConnectionsReturned
    /\ payload.data.t = "list" /\ payload.data.items = <<>>
    /\ result = Returned(PyNone)

\* C8: first_patient_id() fails with a DataShapeError for every connections
\* payload whose data is neither an empty list nor a non-empty list whose
\* first element is an object carrying an identifier.
C8_ShapeError ==
    (op = "first_patient_id" /\ ConnectionsReturned
       /\ ~(payload.data.t = "list"
             /\ (Len(payload.data.items) = 0 \/ HasItemId(payload.data.items[1]))))
        => result.kind = "raise" /\ result.err = "DataShapeError"

\* The connections payload resolves no patient id.
ResolvesNoPid(p) ==
    /\ p.data.t = "list"
    /\ \/ Len(p.data.items) = 0
       \/ p.data.items[1].t = "dict" /\ ~Truthy(ItemIdOf(p.data.items[1]))

IsGraphPath(path) == path \notin {"/llu/auth/login", "/llu/connections"}

C9_State ==
    op = "last_reading"
        => /\ (ConnectionsReturned /\ ResolvesNoPid(payload))
                => result = Raised("NoConnectionError", 255)
           /\ (result.kind = "raise" /\ result.err = "NoConnectionError")
                => \A i \in DOMAIN sent : ~IsGraphPath(sent[i].path)
           /\ \A i \in DOMAIN sent :
                IsGraphPath(sent[i].path)
                    => /\ pid.t = "str" /\ pid.s # ""
                       /\ sent[i].path = "/llu/connections/" \o pid.s \o "/graph"
                       /\ i > 1 /\ sent[i - 1].path # "/llu/auth/login"
                       /\ \E j \in 1..(i - 1) : sent[j].path = "/llu/connections"

C9_Step ==
    (op = "last_reading" /\ pc # "idle" /\ stage = "connections" /\ stage' = "graph")
        => /\ payload'.t = "dict" /\ payload'._http_status < 400
           /\ payload'.data.t = "list" /\ Len(payload'.data.items) > 0
           /\ HasItemId(payload'.data.items[1])
           /\ pid' = PyStr(ItemIdOf(payload'.data.items[1]).s)
           /\ pc' = "call"

\* C9: last_reading() raises NoConnectionError whenever first_patient_id()
\* resolves no patient id, and then no graph request has been sent; a graph
\* request is sent only after the connections call succeeded and yielded a
\* patient id, and its path names that id.
C9_NoConnection == []C9_State /\ [][C9_Step]_vars

C9_Witness ==
    /\ op = "last_reading" /\ ConnectionsReturned
    /\ payload.data.t = "list" /\ payload.data.items = <<>>
    /\ result = Raised("NoConnectionError", 255)
    /\ \A i \in DOMAIN sent : ~IsGraphPath(sent[i].path)

\* The graph payload holds data.connection.glucoseMeasurement as a
\* non-empty object under objects data and data.connection.
WellFormedReading(p) ==
    /\ p.data.t = "dict" /\ p.data.connection.t = "dict"
    /\ p.data.connection.glucoseMeasurement.t = "dict"
    /\ p.data.connection.glucoseMeasurement.s # "{}"

\* C10: last_reading() raises DataShapeError whenever data.connection or its
\* glucoseMeasurement is absent or malformed, and otherwise returns exactly
\* the glucoseMeasurement of the graph response.
C10_ReadingShape ==
    (op = "last_reading" /\ pc = "idle" /\ stage = "graph" /\ LastIsData
       /\ payload.t = "dict" /\ payload._http_status < 400)
        => IF WellFormedReading(payload)
           THEN result = Returned(payload.data.connection.glucoseMeasurement)
           ELSE result.kind = "raise" /\ result.err = "DataShapeError"

\* A request goes out in this step.
Sends == pc # "idle"
NewRequest == sent'[Len(sent')]
HasToken == _token # PyNone /\ _token.s # ""

\* C11: after a connections or graph request whose final response carries a
\* token, the stored token is that token; starting the next call leaves it
\* alone, every request carries the stored token as its Bearer header, and
\* the rotation leads to no login request: a data call never goes back to
\* login, and a call begun with a token starts at its data request.
C11_TokenRotation ==
    /\ []((pc \in {"idle", "call"} /\ LastIsData /\ payload.t = "dict"
             /\ NonEmptyAt(payload) # {})
            => _token = ExpectedToken(payload))
    /\ [][ /\ pc = "idle" => _token' = _token
           /\ Sends => NewRequest.headers.authorization = BearerOf(_token)
           /\ pc \in {"call", "call_retry"} => pc' \notin {"login", "login_retry"}
           /\ (pc = "idle" /\ HasToken /\ op' # "login") => pc' \in {"idle", "call"}
         ]_vars

C11_Witness ==
    /\ op = "last_reading" /\ pc = "idle" /\ Len(sent) = 2
    /\ sent[1].path = "/llu/connections"
    /\ sent[1].headers.authorization = PyStr("Bearer T1")
    /\ sent[2].path = "/llu/connections/P1/graph"
    /\ sent[2].headers.authorization = PyStr("Bearer T2")
    /\ payload.ticket = NoDict
    /\ _token = PyStr("T2")

\* C12: a request sent while the stored token is non-empty carries an
\* authorization header holding exactly the token stored at that moment,
\* whatever the request: a data request, its version retry, a re-login.
C12_BearerCurrent ==
    [][(Sends /\ HasToken)
          => /\ Len(sent') = Len(sent) + 1
             /\ NewRequest.headers.authorization = PyStr("Bearer " \o _token.s)
      ]_vars

C12_Witness ==
    /\ op = "login" /\ pc = "idle" /\ Len(sent) = 2
    /\ sent[1].headers.authorization = PyStr("Bearer T2")
    /\ sent[2].headers.authorization = PyStr("Bearer T2")
    /\ result.kind = "return" /\ _token = PyStr("T1")

HashSet == _account_id_hash # PyNone
LoginRequests == PathCount(sent, "/llu/auth/login")

\* C13: once account_id_hash is set, no step of connections,
\* first_patient_id, graph or last_reading changes it, and a call of these
\* begun with a hash set sends no login request (it holds a token, so the
\* lazy login does not run); only a call of login may change the hash.
C13_HashStable ==
    /\ [](HashSet => HasToken)
    /\ []((at_call.account_id_hash # PyNone /\ op # "login")
            => /\ pc \notin {"login", "login_retry"}
               /\ LoginRequests = 0
               /\ _account_id_hash = at_call.account_id_hash)
    /\ [][(HashSet /\ op' # "login") => _account_id_hash' = _account_id_hash]_vars

C13_Witness ==
    /\ op = "last_reading" /\ pc = "idle" /\ Len(sent) = 2
    /\ at_call.account_id_hash = PyStr("sha256(U1)")
    /\ _account_id_hash = PyStr("sha256(U1)")
    /\ at_call.token = PyStr("T1") /\ _token = PyStr("T2")
    /\ sent[2].headers.account_id = PyStr("sha256(U1)")

\* The user id a login response carries under data.user.id, if any.
UserIdOf(p) ==
    IF p.data.t = "dict" /\ p.data.user.t = "dict" /\ Truthy(p.data.user.id)
    THEN p.data.user.id ELSE PyNone

\* C14: after a successful login() the hash follows the final response: none
\* is held when the response carries no user id, and otherwise it is the
\* digest of the user id; first login or re-login alike.
C14_HashFollowsLogin ==
    (pc = "idle" /\ op = "login" /\ result.kind = "return")
        => _account_id_hash =
              IF UserIdOf(payload) = PyNone THEN PyNone
              ELSE PyStr("sha256(" \o UserIdOf(payload).s \o ")")

\* A login response that login() accepts: below 400 and carrying a token.
LoginOk(p) == p.t = "dict" /\ p._http_status < 400 /\ NonEmptyAt(p) # {}
IsLoginAt(i) == sent[i].path = "/llu/auth/login"

\* C15: a call that goes through connections() or graph() starts with a
\* login request exactly when no token is stored at the call.  With a token
\* it sends no login request; without one its login requests all precede
\* its data requests, and it moves on to the data request only from a login
\* response that login() accepts, so every data request carries a token.
C15_LazyLogin ==
    /\ [](op \in {"connections", "first_patient_id", "graph", "last_reading"}
            => /\ (at_call.token # PyNone) => LoginRequests = 0
               /\ (at_call.token = PyNone /\ sent # <<>>) => IsLoginAt(1)
               /\ \A i, j \in DOMAIN sent : (i < j /\ IsLoginAt(j)) => IsLoginAt(i)
               /\ \A i \in DOMAIN sent :
                    ~IsLoginAt(i) => sent[i].headers.authorization # PyNone)
    /\ [][ /\ (pc = "idle" /\ op' # "login")
                => pc' = IF HasToken THEN "call" ELSE "login"
           /\ (pc \in {"login", "login_retry"} /\ pc' = "call")
                => LoginOk(payload')
           /\ (pc \in {"login", "login_retry"} /\ op # "login" /\ LoginOk(payload')
                 /\ ~(pc = "login" /\ SignalsRedirect(payload')))
                => pc' = "call"
         ]_vars

C15_Witness ==
    /\ op = "connections" /\ pc = "idle" /\ at_call.token = PyNone
    /\ Len(sent) = 3
    /\ IsLoginAt(1) /\ IsLoginAt(2) /\ sent[3].path = "/llu/connections"
    /\ sent[1].headers.authorization = PyNone
    /\ sent[3].headers.authorization = PyStr("Bearer T1")
    /\ result.kind = "return"

\* C16: an operation that ends in an error leaves base_url, version, token
\* and account_id_hash as they were when it was called.
C16_NoPartialSuccess ==
    (pc = "idle" /\ result.kind = "raise") => SessionFields = at_call

GraphRequests == Cardinality({i \in DOMAIN sent : IsGraphPath(sent[i].path)})

\* C17: whatever the server answers, a call that has started ends, and the
\* requests of one call are bounded: login() sends at most 2, a call sends
\* at most 2 login requests, 2 connections requests and 2 graph requests,
\* so connections() and graph() stay within 4 requests and last_reading()
\* within 6.
C17_Terminates ==
    /\ [](/\ LoginRequests <= 2
          /\ PathCount(sent, "/llu/connections") <= 2
          /\ GraphRequests <= 2
          /\ op = "login" => Len(sent) <= 2
          /\ op = "connections" => Len(sent) <= 4 /\ GraphRequests = 0
          /\ op = "graph" => Len(sent) <= 4 /\ PathCount(sent, "/llu/connections") = 0
          /\ Len(sent) <= 6)
    /\ (pc # "idle") ~> (pc = "idle")

C17_Witness ==
    /\ op = "last_reading" /\ pc = "idle" /\ Len(sent) = 6
    /\ LoginRequests = 2 /\ GraphRequests = 2
    /\ SignalsRedirect(payload) = FALSE /\ IsVersionSignal(payload)

\* C18: when the response to the login request has the redirect flag but no
\* region code, the call ends there with an AuthError: no second login
\* request is sent, and base_url, token and account_id_hash stay as they
\* were.
C18_RedirectNoRegion ==
    /\ [][(pc = "login" /\ SignalsRedirect(payload') /\ ~HasRegionCode(payload'))
            => /\ pc' = "idle"
               /\ result'.kind = "raise" /\ result'.err = "AuthError"
               /\ base_url' = base_url
               /\ _token' = _token
               /\ _account_id_hash' = _account_id_hash
         ]_vars
    /\ []((pc = "idle" /\ LastIsLogin /\ LoginRequests = 1
             /\ SignalsRedirect(payload) /\ ~HasRegionCode(payload))
            => /\ result.kind = "raise" /\ result.err = "AuthError"
               /\ base_url = at_call.base_url
               /\ _token = at_call.token
               /\ _account_id_hash = at_call.account_id_hash)

C18_Witness ==
    /\ op = "login" /\ pc = "idle" /\ Len(sent) = 1
    /\ payload.data.redirect = PyTrue
    /\ payload.data.region = PyInt("7") /\ payload.region = PyStr("eu")
    /\ result.err = "AuthError"
    /\ at_call.token = PyStr("T2") /\ _token = PyStr("T2")
    /\ base_url = "https://api-eu.libreview.io"
    /\ _account_id_hash = PyStr("sha256(U1)")

\* C19: a stored token, once non-empty, stays non-empty through every step
\* (failed re-login, error response, response without a token), so a
\* connections, first_patient_id, graph or last_reading call made after a
\* successful login starts at its data request and sends no login request.
C19_TokenStays ==
    /\ [][HasToken => (_token' # PyNone /\ _token'.s # "")]_vars
    /\ [][(HasToken /\ pc = "idle" /\ op' # "login") => pc' = "call"]_vars
    /\ []((at_call.token # PyNone /\ op # "login")
            => (HasToken /\ \A i \in DOMAIN sent : ~IsLoginAt(i)))

C19_Witness ==
    /\ op = "login" /\ pc = "idle" /\ Len(sent) = 2
    /\ result.kind = "raise" /\ result.line = 180
    /\ at_call.token = PyStr("T1") /\ _token = PyStr("T1")
    /\ payload._http_status = 200 /\ NonEmptyAt(payload) = {}

\* A 403 response with status 920.
Is403_920(p) == p.t = "dict" /\ p._http_status = 403 /\ p.status = PyInt("920")

\* C20: the stored version changes only at the first response of a
\* connections or graph request, when that response is 403 with status 920
\* and a string minimumVersion, and it becomes that minimum; a 403/920 first
\* response whose minimumVersion is no string leads to no retry and no
\* change; no step of login() changes the version.  base_url changes only
\* at a login response that signals a redirect with a region code, and
\* account_id_hash changes only at a login response.
C20_Frame ==
    [][ /\ version' # version
            => /\ pc = "call" /\ LastIsData'
               /\ IsVersionSignal(payload')
               /\ version' = payload'.data.minimumVersion.s
               /\ pc' = "call_retry"
        /\ (pc = "call" /\ Is403_920(payload')
              /\ ~(payload'.data.t = "dict" /\ payload'.data.minimumVersion.t = "str"))
            => (pc' = "idle" /\ version' = version)
        /\ (pc \in {"login", "login_retry"} \/ op' = "login") => version' = version
        /\ base_url' # base_url
            => (pc = "login" /\ SignalsRedirect(payload') /\ HasRegionCode(payload'))
        /\ _account_id_hash' # _account_id_hash
            => (pc \in {"login", "login_retry"} /\ LastIsLogin')
      ]_vars

C20_Witness ==
    /\ op = "graph" /\ pc = "call_retry" /\ Len(sent) = 3
    /\ at_call.version = "4.16.0" /\ version = "4.18.0"
    /\ at_call.base_url = "https://api.libreview.io"
    /\ base_url = "https://api-us.libreview.io"
    /\ at_call.account_id_hash = PyNone
    /\ _account_id_hash = PyStr("sha256(U2)")

=============================================================================
